---- MODULE Spec2Model ----
(***************************************************************************)
(* A model of packages/gatsby-cli/src/reporter/index.js: the reporter      *)
(* facade (setVerbose, setNoColor, error, panic, panicOnBuild) and the two *)
(* activity trackers it builds (activityTimer, createProgress).            *)
(*                                                                         *)
(* JavaScript values are records with a tag field t.  A call is modelled   *)
(* by its completion: how it ended (returned, threw, exited), the value it *)
(* returned or threw, and the calls it made on its collaborators, in       *)
(* order.  The collaborators (rendering backend, error formatter,          *)
(* telemetry, tracer, construct-error) are not part of this file; they are *)
(* modelled by the interface the reporter uses.                            *)
(***************************************************************************)
EXTENDS Integers, Sequences, FiniteSets

\* Longest array handed to error / panic / panicOnBuild.
MaxArrayLen == 2
\* Last reading of the high-resolution clock, in half milliseconds.
MaxClock == 3
\* Most tick() calls followed on one progress tracker.
MaxTicks == 3
\* Most end() / done() calls followed on one tracker.
MaxDone == 2

VARIABLES
  env,            \* process.env.gatsby_executing_command
  proc,           \* the process: running, or exited with a status
  verbose,        \* the rendering backend's verbosity flag
  backendColors,  \* the value the rendering backend got by setColors
  formatterColors,\* whether errorFormatter still renders with colors
  now,            \* the reading of process.hrtime()
  tracker,        \* the activity tracker followed, or NoTracker
  ticks,          \* how often tick() has been called on the tracker
  last            \* the last call: operation, arguments and completion

vars ==
  <<env, proc, verbose, backendColors, formatterColors, now, tracker, ticks, last>>

----------------------------------------------------------------------------
(* JavaScript values *)

Undefined == [t |-> "undefined"]

Null == [t |-> "null"]

Bool(b) == [t |-> "boolean", b |-> b]

Num(n) == [t |-> "number", n |-> n]

Str(s) == [t |-> "string", s |-> s]

\* An Error object with its message.
Err(m) == [t |-> "Error", message |-> m]

Arr(items) == [t |-> "array", items |-> items]

\* { sourceMessage: ... }
Context(sourceMessage) == [t |-> "context", sourceMessage |-> sourceMessage]

\* A plain details object; a property it lacks reads as Undefined.
Obj(context, err) == [t |-> "object", context |-> context, error |-> err]

TypeError(what) == [t |-> "TypeError", message |-> what]

\* ToBoolean, as an if (...) applies it.
Truthy(v) ==
  CASE v.t \in {"undefined", "null"} -> FALSE
    [] v.t = "string" -> v.s # ""
    [] v.t = "boolean" -> v.b
    [] v.t = "number" -> v.n # 0
    [] OTHER -> TRUE

\* typeof v === `object`
TypeofObject(v) == v.t \in {"null", "object", "context", "array", "Error", "TypeError"}

\* The decimal digits of an integer, as Number.prototype.toString gives them.
Digit(d) == <<"0", "1", "2", "3", "4", "5", "6", "7", "8", "9">>[d + 1]

RECURSIVE NumberToString(_)
NumberToString(n) ==
  IF n < 0 THEN "-" \o NumberToString(-n)
  ELSE IF n < 10 THEN Digit(n)
  ELSE NumberToString(n \div 10) \o Digit(n % 10)

\* The string a value turns into under + with a string.
RECURSIVE ToString(_)
RECURSIVE Join(_)
Join(items) ==
  IF items = <<>> THEN ""
  ELSE LET h == Head(items)
           hs == IF h.t \in {"undefined", "null"} THEN "" ELSE ToString(h)
       IN IF Len(items) = 1 THEN hs ELSE hs \o "," \o Join(Tail(items))

ToString(v) ==
  CASE v.t = "string" -> v.s
    [] v.t = "undefined" -> "undefined"
    [] v.t = "null" -> "null"
    [] v.t = "boolean" -> IF v.b THEN "true" ELSE "false"
    [] v.t = "number" -> NumberToString(v.n)
    [] v.t \in {"Error", "TypeError"} ->
         IF v.message = "" THEN v.t ELSE v.t \o ": " \o v.message
    [] v.t = "array" -> Join(v.items)
    [] OTHER -> "[object Object]"

\* v.message, for a v that is neither undefined nor null.
GetMessage(v) == IF v.t \in {"Error", "TypeError"} THEN Str(v.message) ELSE Undefined

----------------------------------------------------------------------------
(* Completions and collaborator calls *)

Returned(value, effects) ==
  [outcome |-> "returned", value |-> value, effects |-> effects]

Threw(exception, effects) ==
  [outcome |-> "threw", value |-> exception, effects |-> effects]

Exited(status, effects) ==
  [outcome |-> "exited", value |-> Num(status), effects |-> effects]

\* One call on a collaborator, with its argument.
Call(target, arg) == [call |-> target, arg |-> arg]

\* errorFormatter.render(error): the text depends on the formatter's mode.
render(err) == [t |-> "rendered", of |-> err, colors |-> formatterColors]

\* constructError({ details }): the structured error carries the details.
constructError(details) == details

\* Object.assign({}, source): the copied details; null and objects without
\* the two properties give an object whose context and error read Undefined.
ObjectAssign(source) ==
  IF source.t = "object" THEN Obj(source.context, source.error)
  ELSE Obj(Undefined, Undefined)

----------------------------------------------------------------------------
(* reporter.error *)

\* A two-argument context that leaves the prefix out.
TwoArgContextNoPrefix(errorMeta, err) ==
  Context(Str(ToString(GetMessage(err))))

\* The context of the two-argument form: errorMeta + ` ` + error.message.
TwoArgContext(errorMeta, err) ==
  Context(Str(ToString(errorMeta) \o " " \o ToString(GetMessage(err))))

\* The tail of error(): build the structured error, hand it to the backend,
\* log the rendered stack when it carries an error, return it.
reportDetails(details) ==
  LET structuredError == constructError(details)
      reported ==
        IF Truthy(structuredError)
        THEN <<Call("reporterInstance.error", structuredError)>>
        ELSE <<>>
  IN IF structuredError.t \in {"undefined", "null"}
     THEN Threw(TypeError("Cannot read property 'error' of " \o structuredError.t),
                reported)
     ELSE IF Truthy(structuredError.error)
     THEN Returned(structuredError,
                   reported \o <<Call("log", render(structuredError.error))>>)
     ELSE Returned(structuredError, reported)

RECURSIVE error(_)
RECURSIVE mapError(_, _)
\* items.map(errorItem => this.error(...pre, errorItem)): in index order; the
\* first exception ends the map and leaves the earlier reports made.
mapError(pre, items) ==
  IF items = <<>> THEN Returned(Arr(<<>>), <<>>)
  ELSE LET first == error(pre \o <<Head(items)>>)
       IN IF first.outcome = "threw" THEN first
          ELSE LET rest == mapError(pre, Tail(items))
               IN IF rest.outcome = "threw"
                  THEN Threw(rest.value, first.effects \o rest.effects)
                  ELSE Returned(Arr(<<first.value>> \o rest.value.items),
                                first.effects \o rest.effects)

\* error(errorMeta, error), called with the arguments args.
error(args) ==
  LET n == Len(args)
      errorMeta == IF n >= 1 THEN args[1] ELSE Undefined
      err == IF n >= 2 THEN args[2] ELSE Undefined
  IN IF n = 2 THEN
       IF err.t = "array" THEN mapError(<<errorMeta>>, err.items)
       ELSE IF err.t \in {"undefined", "null"}
       THEN Threw(TypeError("Cannot read property 'message' of " \o err.t), <<>>)
       ELSE reportDetails(Obj(TwoArgContext(errorMeta, err), err))
     ELSE IF n = 1 /\ errorMeta.t \in {"Error", "TypeError"}
     THEN reportDetails(Obj(Context(Str(errorMeta.message)), errorMeta))
     ELSE IF n = 1 /\ errorMeta.t = "array" THEN mapError(<<>>, errorMeta.items)
     ELSE IF n = 1 /\ TypeofObject(errorMeta)
     THEN reportDetails(ObjectAssign(errorMeta))
     ELSE IF n = 1 /\ errorMeta.t = "string"
     THEN reportDetails(Obj(Context(errorMeta), Undefined))
     ELSE reportDetails(Obj(Undefined, Undefined))

----------------------------------------------------------------------------
(* Inputs *)

ErrA == Err("errA")

ErrB == Err("errB")

\* What an array handed to error() may hold.
Elements == {ErrA, ErrB, Str("msg")}

Arrays == {Arr(s) : s \in UNION {[1..k -> Elements] : k \in 0..MaxArrayLen}}

PlainObjects ==
  {Obj(Context(Str("ctx")), Undefined), Obj(Context(Str("ctx")), ErrA),
   Obj(Undefined, ErrA)}

\* An array whose second element makes the two-argument form throw.
Malformed == {Undefined, Null, Arr(<<ErrA, Undefined>>)}

Values ==
  Elements \cup {Str(""), Err("")} \cup PlainObjects \cup Arrays \cup Malformed

Prefixes == {Str("prefix")}

\* Two-argument calls whose first argument is not a string.
OddPrefixCalls ==
  {<<Num(0), ErrA>>, <<Num(15), ErrA>>, <<Arr(<<Num(1), Bool(TRUE)>>), ErrA>>}

ArgLists ==
  {<<>>} \cup {<<v>> : v \in Values}
         \cup {<<p, v>> : p \in Prefixes, v \in Values}
         \cup OddPrefixCalls

EnvValues == {Str("build"), Str("develop"), Undefined}

----------------------------------------------------------------------------
(* The reporter facade *)

NoTracker == [kind |-> "none"]

NoCall == [op |-> "load", args |-> <<>>, pre |-> NoTracker, at |-> 0,
           outcome |-> "returned", value |-> Undefined, effects |-> <<>>]

\* A finished call: its operation, its arguments, the tracker it found and
\* the clock's reading, with its completion.
Done(op, args, c) ==
  [op |-> op, args |-> args, pre |-> tracker, at |-> now,
   outcome |-> c.outcome, value |-> c.value, effects |-> c.effects]

Init ==
  /\ env \in EnvValues
  /\ proc = "running"
  /\ verbose = FALSE
  /\ backendColors = TRUE
  /\ formatterColors = TRUE
  /\ now = 0
  /\ tracker = NoTracker
  /\ ticks = 0
  /\ last = NoCall

\* setVerbose(isVerbose = true)
setVerbose(args) ==
  LET isVerbose == IF args = <<>> \/ args[1] = Undefined THEN Bool(TRUE) ELSE args[1]
  IN /\ proc = "running"
     /\ verbose' = isVerbose.b
     /\ last' = Done("setVerbose", args,
                     Returned(Undefined, <<Call("reporterInstance.setVerbose", isVerbose)>>))
     /\ UNCHANGED <<env, proc, backendColors, formatterColors, now, tracker, ticks>>

\* setNoColor(isNoColor = false)
setNoColor(args) ==
  LET isNoColor == IF args = <<>> \/ args[1] = Undefined THEN Bool(FALSE) ELSE args[1]
  IN /\ proc = "running"
     /\ backendColors' = isNoColor.b
     /\ formatterColors' = IF Truthy(isNoColor) THEN FALSE ELSE formatterColors
     /\ last' = Done("setNoColor", args,
                     Returned(Undefined,
                       <<Call("reporterInstance.setColors", isNoColor)>>
                       \o (IF Truthy(isNoColor)
                           THEN <<Call("errorFormatter.withoutColors", Undefined)>>
                           ELSE <<>>)))
     /\ UNCHANGED <<env, proc, verbose, now, tracker, ticks>>

\* error(...args), called from outside
Error(args) ==
  /\ proc = "running"
  /\ last' = Done("error", args, error(args))
  /\ UNCHANGED <<env, proc, verbose, backendColors, formatterColors, now, tracker, ticks>>

\* panic(...args) as a completion
panicCall(args) ==
  LET e == error(args)
  IN IF e.outcome = "threw" THEN e
     ELSE Exited(1, e.effects \o <<Call("trackError", [kind |-> "GENERAL_PANIC", error |-> e.value]),
                                   Call("process.exit", Num(1))>>)

panic(args) ==
  LET c == panicCall(args)
  IN /\ proc = "running"
     /\ last' = Done("panic", args, c)
     /\ proc' = IF c.outcome = "exited" THEN "exited" ELSE proc
     /\ UNCHANGED <<env, verbose, backendColors, formatterColors, now, tracker, ticks>>

\* panicOnBuild(...args) as a completion
panicOnBuildCall(args) ==
  LET e == error(args)
      tracked == e.effects \o <<Call("trackError", [kind |-> "BUILD_PANIC", error |-> e.value])>>
  IN IF e.outcome = "threw" THEN e
     ELSE IF env = Str("build")
     THEN Exited(1, tracked \o <<Call("process.exit", Num(1))>>)
     ELSE Returned(Undefined, tracked)

panicOnBuild(args) ==
  LET c == panicOnBuildCall(args)
  IN /\ proc = "running"
     /\ last' = Done("panicOnBuild", args, c)
     /\ proc' = IF c.outcome = "exited" THEN "exited" ELSE proc
     /\ UNCHANGED <<env, verbose, backendColors, formatterColors, now, tracker, ticks>>

FlagArgs == {<<>>, <<Bool(TRUE)>>, <<Bool(FALSE)>>}

Next ==
  \/ \E a \in FlagArgs : setVerbose(a)
  \/ \E a \in FlagArgs : setNoColor(a)
  \/ \E a \in ArgLists : Error(a)
  \/ \E a \in ArgLists : panic(a)
  \/ \E a \in ArgLists : panicOnBuild(a)

Spec == Init /\ [][Next]_vars

----------------------------------------------------------------------------
(* Collaborators of the activity trackers *)

\* process.hrtime() reads [seconds, nanoseconds]; the model keeps the
\* reading as one count of half milliseconds.
HrTime(at) == [t |-> "hrtime", at |-> at]

\* process.hrtime(time): the reading, or the time since an earlier reading;
\* an argument that is neither undefined nor an array is a TypeError.
processHrtime(time) ==
  IF time = Undefined THEN Returned(HrTime(now), <<>>)
  ELSE IF time.t = "hrtime" THEN Returned(HrTime(now - time.at), <<>>)
  ELSE Threw(TypeError("The \"time\" argument must be an instance of Array"), <<>>)

\* Math.round(convertHrtime(hr)[`milliseconds`]): halves round up.
roundedMilliseconds(hr) == (hr.at + 1) \div 2

\* tracer.startSpan(name, spanArgs)
startSpan(name, parentSpan) ==
  [t |-> "span", name |-> name,
   childOf |-> IF Truthy(parentSpan) THEN parentSpan ELSE Undefined,
   finished |-> 0]

\* span.finish()
finish(span) == [span EXCEPT !.finished = @ + 1]

\* reporterInstance.createActivity(props) -> { update(partial), done() }
createActivity(type, id, status, current, total) ==
  [type |-> type, id |-> id, status |-> status, startTime |-> Undefined,
   current |-> current, total |-> total, done |-> 0]

\* activity.update(partial): the properties of partial replace the old ones.
update(activity, partial) ==
  [f \in DOMAIN activity |-> IF f \in DOMAIN partial THEN partial[f] ELSE activity[f]]

\* activity.done()
markDone(activity) == [activity EXCEPT !.done = @ + 1]

\* A method's result: the tracker it leaves and its completion.
Left(tr, c) == [tracker |-> tr, c |-> c]

----------------------------------------------------------------------------
(* activityTimer: the spinner tracker *)

newSpinner(name, parentSpan) ==
  [kind |-> "spinner", name |-> name, startTime |-> Num(0),
   span |-> startSpan(name, parentSpan),
   activity |-> createActivity("spinner", name, Str(""), Undefined, Undefined)]

spinnerStart(tr) ==
  LET startTime == HrTime(now)
  IN Left([tr EXCEPT !.startTime = startTime,
                     !.activity = update(@, [startTime |-> startTime])],
          Returned(Undefined, <<Call("activity.update", [startTime |-> startTime])>>))

spinnerSetStatus(tr, status) ==
  Left([tr EXCEPT !.activity = update(@, [status |-> status])],
       Returned(Undefined, <<Call("activity.update", [status |-> status])>>))

spinnerEnd(tr) ==
  LET elapsed == processHrtime(tr.startTime)
      metric == [name |-> tr.name,
                 duration |-> roundedMilliseconds(elapsed.value)]
  IN IF elapsed.outcome = "threw" THEN Left(tr, elapsed)
     ELSE Left([tr EXCEPT !.span = finish(@), !.activity = markDone(@)],
               Returned(Undefined,
                 <<Call("trackCli", [event |-> "ACTIVITY_DURATION", data |-> metric]),
                   Call("span.finish", tr.name),
                   Call("activity.done", tr.name)>>))

----------------------------------------------------------------------------
(* createProgress: the progress tracker *)

newProgress(name, total, start, parentSpan) ==
  [kind |-> "progress", name |-> name, total |-> total, start |-> start,
   hasStarted |-> FALSE, current |-> start,
   span |-> startSpan(name, parentSpan),
   activity |-> createActivity("progress", name, Undefined, Num(start), total)]

\* A start() without the hasStarted guard, as the spinner's.
progressStartUnguarded(tr) ==
  LET startTime == HrTime(now)
  IN Left([tr EXCEPT !.hasStarted = TRUE,
                     !.activity = update(@, [startTime |-> startTime])],
          Returned(Undefined, <<Call("activity.update", [startTime |-> startTime])>>))

progressStart(tr) ==
  IF tr.hasStarted THEN Left(tr, Returned(Undefined, <<>>))
  ELSE LET startTime == HrTime(now)
       IN Left([tr EXCEPT !.hasStarted = TRUE,
                          !.activity = update(@, [startTime |-> startTime])],
               Returned(Undefined,
                 <<Call("activity.update", [startTime |-> startTime])>>))

progressSetStatus(tr, status) ==
  Left([tr EXCEPT !.activity = update(@, [status |-> status])],
       Returned(Undefined, <<Call("activity.update", [status |-> status])>>))

\* A tick() that stops counting at total.
progressTickCapped(tr) ==
  LET current == IF tr.current < tr.total.n THEN tr.current + 1 ELSE tr.current
  IN Left([tr EXCEPT !.current = current,
                     !.activity = update(@, [current |-> Num(current)])],
          Returned(Undefined, <<Call("activity.update", [current |-> Num(current)])>>))

progressTick(tr) ==
  LET current == tr.current + 1
  IN Left([tr EXCEPT !.current = current,
                     !.activity = update(@, [current |-> Num(current)])],
          Returned(Undefined, <<Call("activity.update", [current |-> Num(current)])>>))

\* A done() that forgets to finish the span.
progressDoneNoFinish(tr) ==
  Left([tr EXCEPT !.activity = markDone(@)],
       Returned(Undefined, <<Call("activity.done", tr.name)>>))

progressDone(tr) ==
  Left([tr EXCEPT !.span = finish(@), !.activity = markDone(@)],
       Returned(Undefined,
         <<Call("span.finish", tr.name), Call("activity.done", tr.name)>>))

progressSetTotal(tr, value) ==
  Left([tr EXCEPT !.total = value, !.activity = update(@, [total |-> value])],
       Returned(Undefined, <<Call("activity.update", [total |-> value])>>))

----------------------------------------------------------------------------
(* The calls on the tracker followed *)

Names == {"x"}

\* activityArgs.parentSpan: absent, or a span of the tracer.
ParentSpans == {Undefined, startSpan("parent", Undefined)}

Statuses == {Str("busy")}

Totals == {Num(2)}

NewTotals == {Num(1), Num(5)}

\* createProgress's start argument: left out, or a count.
Starts == {<<>>, <<Num(1)>>}

\* A call on the tracker: it leaves r.tracker and completes as r.c.
On(op, args, r) ==
  /\ proc = "running"
  /\ tracker' = r.tracker
  /\ last' = Done(op, args, r.c)
  /\ UNCHANGED <<env, proc, verbose, backendColors, formatterColors, now>>

\* The clock moves on between calls.
Advance ==
  /\ proc = "running"
  /\ now < MaxClock
  /\ now' = now + 1
  /\ UNCHANGED <<env, proc, verbose, backendColors, formatterColors, tracker, ticks, last>>

activityTimer(name, parentSpan) ==
  /\ tracker = NoTracker
  /\ On("activityTimer", <<Str(name), parentSpan>>,
        Left(newSpinner(name, parentSpan),
             Returned(Undefined, <<Call("tracer.startSpan", name),
                                   Call("reporterInstance.createActivity", name)>>)))
  /\ ticks' = 0

\* createProgress(name, total, start = 0, activityArgs = {})
createProgress(name, total, startArg, parentSpan) ==
  LET start == IF startArg = <<>> THEN 0 ELSE startArg[1].n
  IN /\ tracker = NoTracker
     /\ On("createProgress", <<Str(name), total>> \o startArg,
           Left(newProgress(name, total, start, parentSpan),
                Returned(Undefined, <<Call("tracer.startSpan", name),
                                      Call("reporterInstance.createActivity", name)>>)))
     /\ ticks' = 0

SpinnerStart ==
  /\ tracker.kind = "spinner"
  /\ On("spinner.start", <<>>, spinnerStart(tracker))
  /\ UNCHANGED ticks

SpinnerSetStatus(status) ==
  /\ tracker.kind = "spinner"
  /\ On("spinner.setStatus", <<status>>, spinnerSetStatus(tracker, status))
  /\ UNCHANGED ticks

SpinnerEnd ==
  /\ tracker.kind = "spinner"
  /\ tracker.activity.done < MaxDone
  /\ On("spinner.end", <<>>, spinnerEnd(tracker))
  /\ UNCHANGED ticks

ProgressStart ==
  /\ tracker.kind = "progress"
  /\ On("progress.start", <<>>, progressStart(tracker))
  /\ UNCHANGED ticks

ProgressSetStatus(status) ==
  /\ tracker.kind = "progress"
  /\ On("progress.setStatus", <<status>>, progressSetStatus(tracker, status))
  /\ UNCHANGED ticks

ProgressTick ==
  /\ tracker.kind = "progress"
  /\ ticks < MaxTicks
  /\ On("progress.tick", <<>>, progressTick(tracker))
  /\ ticks' = ticks + 1

ProgressDone ==
  /\ tracker.kind = "progress"
  /\ tracker.activity.done < MaxDone
  /\ On("progress.done", <<>>, progressDone(tracker))
  /\ UNCHANGED ticks

ProgressSetTotal(value) ==
  /\ tracker.kind = "progress"
  /\ On("progress.total", <<value>>, progressSetTotal(tracker, value))
  /\ UNCHANGED ticks

NextActivity ==
  \/ Advance
  \/ \E n \in Names, p \in ParentSpans : activityTimer(n, p)
  \/ \E n \in Names, t \in Totals, s \in Starts, p \in ParentSpans :
       createProgress(n, t, s, p)
  \/ SpinnerStart
  \/ \E s \in Statuses : SpinnerSetStatus(s)
  \/ SpinnerEnd
  \/ ProgressStart
  \/ \E s \in Statuses : ProgressSetStatus(s)
  \/ ProgressTick
  \/ ProgressDone
  \/ \E v \in NewTotals : ProgressSetTotal(v)

SpecActivity == Init /\ [][NextActivity]_vars

----------------------------------------------------------------------------
(* Claims about the reporter facade, checked under Spec *)

\* The calls of effects made on one collaborator, in order.
Calls(effects, target) == SelectSeq(effects, LAMBDA e : e.call = target)

ArrayOf(v, tags) == v.t = "array" /\ \A i \in 1..Len(v.items) : v.items[i].t \in tags

\* The input shapes the normalizer is documented for.
SupportedShape(args) ==
  \/ /\ Len(args) = 1
     /\ \/ args[1].t \in {"string", "Error", "object"}
        \/ ArrayOf(args[1], {"string", "Error"})
  \/ /\ Len(args) = 2
     /\ args[1].t = "string"
     /\ (args[2].t = "Error" \/ ArrayOf(args[2], {"Error"}))

HasSourceMessage(se) ==
  /\ se.t = "object"
  /\ se.context.t = "context"
  /\ se.context.sourceMessage.t = "string"
  /\ se.context.sourceMessage.s # ""

\* C1: for every supported input shape, error(...) returns a structured
\* error, or a sequence of them, each with a context whose sourceMessage is
\* a non-empty string.
C1_NonEmptySourceMessage ==
  (last.op = "error" /\ SupportedShape(last.args)) =>
    /\ last.outcome = "returned"
    /\ IF last.value.t = "array"
       THEN \A i \in 1..Len(last.value.items) : HasSourceMessage(last.value.items[i])
       ELSE HasSourceMessage(last.value)

\* C2: error(prefix, errors) with an array of n Errors returns n structured
\* errors in the input's order, the i-th carrying errors[i] and the source
\* message prefix + " " + errors[i].message, and the backend is handed these
\* n structured errors in the same order.
C2_PrefixedArray ==
  (last.op = "error" /\ Len(last.args) = 2 /\ last.args[1].t = "string"
     /\ ArrayOf(last.args[2], {"Error"})) =>
    LET prefix == last.args[1].s
        errors == last.args[2].items
        reports == Calls(last.effects, "reporterInstance.error")
    IN /\ last.outcome = "returned"
       /\ last.value.t = "array"
       /\ Len(last.value.items) = Len(errors)
       /\ \A i \in 1..Len(errors) :
            /\ last.value.items[i].error = errors[i]
            /\ last.value.items[i].context
                 = Context(Str(prefix \o " " \o errors[i].message))
       /\ Len(reports) = Len(errors)
       /\ \A i \in 1..Len(errors) : reports[i].arg = last.value.items[i]

\* error(prefix, [errA, errB]) has returned its two structured errors.
C2_Witness ==
  /\ last.op = "error"
  /\ last.args = <<Str("prefix"), Arr(<<ErrA, ErrB>>)>>
  /\ last.outcome = "returned"
  /\ Len(last.value.items) = 2
  /\ last.value.items[2].context.sourceMessage = Str("prefix errB")

\* C3: panicOnBuild(...) ends the process with status 1 exactly when
\* gatsby_executing_command is "build" and otherwise returns with the process
\* running; either way the BUILD_PANIC telemetry event is recorded after the
\* error reports and before the exit.
C3_PanicOnBuild ==
  last.op = "panicOnBuild" =>
    /\ (last.outcome = "exited" /\ last.value = Num(1)) <=> (env = Str("build"))
    /\ (env # Str("build")) => (last.outcome = "returned" /\ proc = "running")
    /\ \E i \in 1..Len(last.effects) :
         /\ last.effects[i].call = "trackError"
         /\ last.effects[i].arg.kind = "BUILD_PANIC"
         /\ \A j \in 1..Len(last.effects) :
              /\ (last.effects[j].call = "reporterInstance.error") => j < i
              /\ (last.effects[j].call = "process.exit") => j > i

\* C4: every call of panic(...), whatever its arguments, reports the
\* normalized error, then records a GENERAL_PANIC telemetry event carrying
\* it, then exits; none returns or leaves the process running.
C4_PanicExits ==
  last.op = "panic" =>
    LET n == Len(last.effects)
    IN /\ last.outcome = "exited"
       /\ proc = "exited"
       /\ n >= 2
       /\ last.effects[n] = Call("process.exit", Num(1))
       /\ last.effects[n - 1].call = "trackError"
       /\ last.effects[n - 1].arg
            = [kind |-> "GENERAL_PANIC", error |-> error(last.args).value]
       /\ \A j \in 1..(n - 2) :
            last.effects[j].call \in {"reporterInstance.error", "log"}

\* C5: no exception propagates out of error(...): every call, malformed
\* input included, returns.
C5_ErrorNeverThrows == last.op = "error" => last.outcome = "returned"

\* setNoColor(true) has been called: it is the last call, or the formatter
\* is colourless (withoutColors is the only write to its mode).
NoColorRequested ==
  \/ last.op = "setNoColor" /\ last.args = <<Bool(TRUE)>>
  \/ ~formatterColors

\* C9: once setNoColor(true) has been called, the formatter is colourless,
\* the backend is configured to not use colors, and every error rendered
\* from then on is rendered without colors.
C9_NoColorSticks ==
  NoColorRequested =>
    /\ ~formatterColors
    /\ ~backendColors
    /\ \A i \in 1..Len(last.effects) :
         (last.effects[i].call = "log") => ~last.effects[i].arg.colors

----------------------------------------------------------------------------
(* Claims about the activity trackers, checked under SpecActivity *)

\* C6: a call of end() on a spinner emits exactly one ACTIVITY_DURATION
\* metric named after the activity, then finishes the span once, then marks
\* the backend activity done.
C6_EndEmitsOnce ==
  last.op = "spinner.end" =>
    /\ last.outcome = "returned"
    /\ Len(last.effects) = 3
    /\ last.effects[1].call = "trackCli"
    /\ last.effects[1].arg.event = "ACTIVITY_DURATION"
    /\ last.effects[1].arg.data.name = last.pre.name
    /\ last.effects[2] = Call("span.finish", last.pre.name)
    /\ last.effects[3] = Call("activity.done", last.pre.name)
    /\ tracker.span.finished = last.pre.span.finished + 1
    /\ tracker.activity.done = last.pre.activity.done + 1

\* C7: on a progress tracker, after n calls of tick() the current count is
\* start + n and the last update of current pushed carries it; tick() does
\* not look at total; start(), setStatus(), done() and assigning total leave
\* current as it was.
C7_TickCount ==
  tracker.kind = "progress" =>
    /\ tracker.current = tracker.start + ticks
    /\ tracker.activity.current = Num(tracker.start + ticks)
    /\ (last.op = "progress.tick") =>
         last.effects = <<Call("activity.update", [current |-> Num(tracker.start + ticks)])>>
    /\ (last.op \in {"progress.start", "progress.setStatus", "progress.done",
                     "progress.total"}) =>
         tracker.current = last.pre.current

\* Three ticks have taken current past total.
C7_Witness ==
  /\ tracker.kind = "progress"
  /\ last.op = "progress.tick"
  /\ ticks = 3
  /\ tracker.current = tracker.start + 3
  /\ tracker.current > tracker.total.n

\* C8: on a progress tracker only the first start() pushes a startTime
\* update and every later start() changes nothing; on a spinner every
\* start() overwrites the start time with the clock's reading and pushes it.
C8_StartIdempotence ==
  /\ (last.op = "progress.start") =>
       IF last.pre.hasStarted
       THEN tracker = last.pre /\ last.effects = <<>>
       ELSE /\ tracker.hasStarted
            /\ tracker.activity.startTime = HrTime(last.at)
            /\ last.effects = <<Call("activity.update", [startTime |-> HrTime(last.at)])>>
  /\ (last.op = "spinner.start") =>
       /\ tracker.startTime = HrTime(last.at)
       /\ tracker.activity.startTime = HrTime(last.at)
       /\ last.effects = <<Call("activity.update", [startTime |-> HrTime(last.at)])>>

\* A second start() at a later time has left the first start time in place.
C8_Witness ==
  /\ last.op = "progress.start"
  /\ last.pre.hasStarted
  /\ last.effects = <<>>
  /\ tracker.activity.startTime.t = "hrtime"
  /\ last.at > tracker.activity.startTime.at

UpdateOps ==
  {"spinner.start", "spinner.setStatus", "progress.start", "progress.setStatus",
   "progress.tick", "progress.total"}

TerminalOps == {"spinner.end", "progress.done"}

\* C10: an activity has exactly one terminal transition: its span is
\* finished at most once, the backend activity is marked done at most once,
\* and no update is pushed once it is marked done.
C10_OneTerminalTransition ==
  tracker.kind # "none" =>
    /\ tracker.span.finished <= 1
    /\ tracker.activity.done <= 1
    /\ (last.op \in UpdateOps /\ last.pre.activity.done > 0) => last.effects = <<>>

\* C10 as amended: every end() / done() that returns finishes the span once
\* and marks the backend activity done once, so the two counts stay equal;
\* nothing limits them to one, and an update is pushed whether or not the
\* activity has been marked done (only a repeated progress start() pushes
\* nothing).
C10_TerminalPerCall ==
  tracker.kind # "none" =>
    /\ tracker.span.finished = tracker.activity.done
    /\ (last.op \in TerminalOps) =>
         IF last.outcome = "returned"
         THEN /\ tracker.span.finished = last.pre.span.finished + 1
              /\ tracker.activity.done = last.pre.activity.done + 1
              /\ Len(Calls(last.effects, "span.finish")) = 1
              /\ Len(Calls(last.effects, "activity.done")) = 1
         ELSE tracker = last.pre /\ last.effects = <<>>
    /\ (last.op \in UpdateOps) =>
         IF last.op = "progress.start" /\ last.pre.hasStarted
         THEN last.effects = <<>>
         ELSE Len(last.effects) = 1 /\ last.effects[1].call = "activity.update"

\* A tick after the tracker was ended twice still pushed its update.
C10_Witness ==
  /\ tracker.kind = "progress"
  /\ tracker.span.finished = 2
  /\ tracker.activity.done = 2
  /\ last.op = "progress.tick"
  /\ last.pre.activity.done = 2
  /\ Len(last.effects) = 1

====
